---- MODULE Spec2Model ----
(***************************************************************************)
(* Model of doc_rag.scraper.DocumentationScraper (src/src/doc_rag/         *)
(* scraper.py): the URL functions normalize_url and is_valid_url, link     *)
(* admission in extract_links, the choice between the extractors           *)
(* extract_content and extract_pdf_content, and the crawl loop of scrape().*)
(*                                                                         *)
(* Spec and FairSpec are the crawl; SpecUrl applies the URL functions and  *)
(* extract_links to every URL string, SpecExtract the extractors, SpecSeed *)
(* the constructor and the seeding of scrape().  SpecEmbed is the chunk    *)
(* ids that doc_rag.embedder.DocumentEmbedder.embed_documents (src/src/    *)
(* doc_rag/embedder.py) hands to one collection over successive calls.     *)
(*                                                                         *)
(* A URL string is a sequence of pieces.  The first piece is the scheme    *)
(* and authority ("https://h"), every later piece is one character or one  *)
(* file extension.  The pieces form a prefix code and a suffix code, so    *)
(* str.startswith, str.endswith, str.rstrip("/") and str.split("#") on the *)
(* Python string are the same operations on the sequence of pieces.        *)
(***************************************************************************)
EXTENDS Naturals, Sequences, FiniteSets, TLC

VARIABLES
    base_url,       \* self.base_url
    base_path,      \* self.base_path
    domain,         \* self.domain
    max_pages,      \* self.max_pages
    visited_urls,   \* self.visited_urls
    queued_urls,    \* self.queued_urls
    documents,      \* self.documents
    urls_to_visit,  \* local of scrape(): the pending queue
    total_pages,    \* local of scrape()
    pc,             \* "new" (constructed), "loop" (at the while of scrape), "links"
                    \* (in extract_links), "done" (returned), "raised"
    calls,          \* number of scrape() invocations on this object so far
    fetched,        \* URLs handed to requests.get by the current scrape(), in order
    outcome,        \* what the last loop iteration of scrape() did
    links,          \* local of extract_links(): the list being built
    nhrefs,         \* hrefs of the current page that extract_links() has looked at
    depth,          \* links followed from the seed to each URL found by this scrape()
    slept,          \* time.sleep has run since the last requests.get
    all_ids,        \* embedder: the ids built by the last embed_documents call
    handed,         \* embedder: the ids handed to collection.add by earlier calls
    runs,           \* embedder: embed_documents calls on the collection so far
    arg,            \* URL functions: the URL string under study
    op,             \* URL functions: the last function applied
    out             \* URL functions: its result

vars == <<base_url, base_path, domain, max_pages, visited_urls, queued_urls,
          documents, urls_to_visit, total_pages, pc, calls, fetched, outcome,
          links, nhrefs, depth, slept, all_ids, handed, runs, arg, op, out>>

linkVars == <<links, nhrefs>>
jobVars == <<base_url, base_path, domain, max_pages>>
urlVars == <<arg, op, out>>
embedVars == <<all_ids, handed, runs>>

----------------------------------------------------------------------------
(* Bounds *)

MaxPages == 3      \* max_pages is drawn from 0..MaxPages
MaxLinks == 2      \* hrefs on one fetched page
MaxCalls == 2      \* scrape() invocations on one scraper object
MaxLen == 4        \* pieces in a URL string handed to the URL functions
MaxH1 == 2         \* h1 elements in a parsed HTML document
MaxDocs == 2       \* documents handed to one embed_documents call
MaxRuns == 2       \* embed_documents calls that write to one collection

----------------------------------------------------------------------------
(* URL strings *)

H == "https://h"
S == "https://sub.h"
Origins == {H, S}
Chars == {"/", "a", "#", "?", ".png", ".pdf"}

Min(a, b) == IF a < b THEN a ELSE b

RECURSIVE SeqsUpTo(_, _)
SeqsUpTo(A, n) ==
    IF n = 0 THEN {<<>>}
    ELSE LET shorter == SeqsUpTo(A, n - 1)
         IN  shorter \cup {Append(s, c) : s \in shorter, c \in A}

\* every URL string of at most n pieces
UrlStrings(n) == {<<o>> \o s : o \in Origins, s \in SeqsUpTo(Chars, n - 1)}

\* str.rstrip(c)
RECURSIVE RStrip(_, _)
RStrip(s, c) ==
    IF s # <<>> /\ s[Len(s)] = c THEN RStrip(SubSeq(s, 1, Len(s) - 1), c) ELSE s

\* the index of the first piece of s that is in cs, or Len(s) + 1
RECURSIVE FirstOf(_, _, _)
FirstOf(s, cs, i) ==
    IF i > Len(s) THEN i
    ELSE IF s[i] \in cs THEN i
    ELSE FirstOf(s, cs, i + 1)

\* str.split("#")[0]
BeforeFragment(s) == SubSeq(s, 1, FirstOf(s, {"#"}, 1) - 1)

StartsWith(s, p) == Len(p) <= Len(s) /\ SubSeq(s, 1, Len(p)) = p

\* str.endswith(tuple of suffixes), each suffix one piece
EndsWithAny(s, sufs) == s # <<>> /\ s[Len(s)] \in sufs

\* urlparse(url).netloc, with the scheme in front: the pieces up to the first
\* "/", "?" or "#"
Netloc(url) == SubSeq(url, 1, FirstOf(url, {"/", "?", "#"}, 1) - 1)

\* urlparse(url).path: what follows the authority, up to the first "?" or "#"
UrlPath(url) ==
    SubSeq(url, Len(Netloc(url)) + 1, FirstOf(url, {"?", "#"}, 1) - 1)

----------------------------------------------------------------------------
(* DocumentationScraper: URL functions *)

\* the suffixes of the endswith test in is_valid_url
EXCLUDED_EXTENSIONS == {".zip", ".tar.gz", ".jpg", ".png", ".gif", ".svg", ".ico"}

\* normalize_url, stripping one trailing slash instead of all of them
normalize_url_one_slash(url) ==
    LET u == BeforeFragment(url)
    IN  IF UrlPath(u) # <<"/">> /\ u # <<>> /\ u[Len(u)] = "/"
        THEN SubSeq(u, 1, Len(u) - 1)
        ELSE u

\* normalize_url, keeping the fragment
normalize_url_keep_fragment(url) ==
    IF UrlPath(url) # <<"/">> THEN RStrip(url, "/") ELSE url

normalize_url(url) ==
    LET u == BeforeFragment(url)
    IN  IF UrlPath(u) # <<"/">> THEN RStrip(u, "/") ELSE u

\* is_valid_url without the test for visited and queued URLs
is_valid_url_ignores_seen(url, visited, queued) ==
    /\ Netloc(url) = domain
    /\ StartsWith(RStrip(UrlPath(url), "/"), base_path)
    /\ ~EndsWithAny(url, EXCLUDED_EXTENSIONS)

\* is_valid_url(self, url), with self.visited_urls and self.queued_urls as they
\* are at the call
is_valid_url(url, visited, queued) ==
    /\ Netloc(url) = domain
    /\ StartsWith(RStrip(UrlPath(url), "/"), base_path)
    /\ ~(url \in visited \/ url \in queued)
    /\ ~EndsWithAny(url, EXCLUDED_EXTENSIONS)

\* extract_links that forgets to mark an admitted link as queued
mark_queued_forgets(queued, url) == queued

\* self.queued_urls.add(absolute_url)
mark_queued(queued, url) == queued \cup {url}

\* values of the content-type header, as sequences of pieces: a media type,
\* ";" or a parameter; <<>> is the default of headers.get
ContentTypes ==
    { <<>>,
      <<"text/html">>,
      <<"application/pdf">>,
      <<"Application/PDF">>,
      <<"application/pdf", ";", "charset=binary">> }

\* str.lower()
Lower(s) ==
    [i \in DOMAIN s |-> IF s[i] = "Application/PDF" THEN "application/pdf" ELSE s[i]]

\* piece in s
Contains(s, piece) == \E i \in DOMAIN s : s[i] = piece

\* content_type = response.headers.get("content-type", "").lower()
\* is_pdf = url.endswith(".pdf") or "application/pdf" in content_type
is_pdf(url, header) ==
    LET content_type == Lower(header)
    IN  EndsWithAny(url, {".pdf"}) \/ Contains(content_type, "application/pdf")

----------------------------------------------------------------------------
(* The world a crawl runs in *)

\* base_url arguments of the crawls
BaseUrls == {<<H>>, <<H, "/">>, <<H, "/", "a">>, <<H, "/", "a", "/">>}

\* href values, after urljoin(current_url, href), that the pages of the site
\* under https://h/a may carry
DocsPool ==
    { <<H, "/", "a", "/">>,
      <<H, "/", "a", "/", "a", "#", "a">>,
      <<H, "/", "a", "/", "a", ".pdf">>,
      <<H, "/", "a", "/", "a", ".png", "?", "a">>,
      <<S, "/", "a", "/", "a">>,
      <<H, "/">> }

\* and those of the site at the bare host https://h
RootPool ==
    { <<H, "/">>,
      <<H, "/", "a", "#", "a">>,
      <<H, "/", "a", ".png", "?", "a">>,
      <<S, "/", "a">> }

LinkPool == IF base_path = <<>> THEN RootPool ELSE DocsPool

----------------------------------------------------------------------------
(* DocumentationScraper.__init__ *)

Construct(url, mp) ==
    /\ base_url = RStrip(url, "/")
    /\ base_path = RStrip(UrlPath(url), "/")
    /\ max_pages = mp
    /\ visited_urls = {}
    /\ queued_urls = {}
    /\ documents = <<>>
    /\ domain = Netloc(url)

Init ==
    /\ \E url \in BaseUrls, mp \in 0..MaxPages : Construct(url, mp)
    /\ urls_to_visit = <<>>
    /\ total_pages = 0
    /\ pc = "new"
    /\ calls = 0
    /\ fetched = <<>>
    /\ outcome = "constructed"
    /\ links = <<>>
    /\ nhrefs = 0
    /\ depth = <<>>
    /\ slept = FALSE
    /\ all_ids = <<>>
    /\ handed = {}
    /\ runs = 0
    /\ arg = <<>>
    /\ op = "none"
    /\ out = [url |-> <<>>, valid |-> FALSE]

----------------------------------------------------------------------------
(* DocumentationScraper.scrape *)

\* the while condition with <= for <
LoopCondition_off_by_one ==
    urls_to_visit # <<>> /\ Cardinality(visited_urls) <= max_pages

\* the while condition without the budget
LoopCondition_no_budget == urls_to_visit # <<>>

\* while urls_to_visit and len(self.visited_urls) < self.max_pages
LoopCondition ==
    urls_to_visit # <<>> /\ Cardinality(visited_urls) < max_pages

\* the progress line that an iteration logs after popping the head of the
\* queue: "Scraping ({len(self.visited_urls) + 1}/{total_pages}): {url}"
LogLine ==
    [i |-> Cardinality(visited_urls) + 1,
     total |-> total_pages,
     url |-> Head(urls_to_visit)]

\* scrape() that does not mark the seed as queued
Scrape_seed_not_queued ==
    /\ pc \in {"new", "done"}
    /\ calls < MaxCalls
    /\ urls_to_visit' = <<normalize_url(base_url)>>
    /\ total_pages' = Min(max_pages, 1)
    /\ pc' = "loop"
    /\ calls' = calls + 1
    /\ fetched' = <<>>
    /\ outcome' = "seeded"
    /\ UNCHANGED <<jobVars, visited_urls, queued_urls, documents, linkVars, urlVars,
                   embedVars>>
    /\ depth' = (normalize_url(base_url) :> 0)
    /\ slept' = FALSE

\* scrape() up to the loop: seed the queue with the normalized base URL
Scrape ==
    /\ pc \in {"new", "done"}
    /\ calls < MaxCalls
    /\ LET normalized_base == normalize_url(base_url)
       IN  /\ urls_to_visit' = <<normalized_base>>
           /\ queued_urls' = queued_urls \cup {normalized_base}
           /\ total_pages' = Min(max_pages, 1)
    /\ pc' = "loop"
    /\ calls' = calls + 1
    /\ fetched' = <<>>
    /\ outcome' = "seeded"
    /\ UNCHANGED <<jobVars, visited_urls, documents, linkVars, urlVars,
                   embedVars>>
    /\ depth' = (normalize_url(base_url) :> 0)
    /\ slept' = FALSE

\* the skip branch reading the head of the queue without removing it
Skip_no_pop ==
    /\ pc = "loop"
    /\ LoopCondition
    /\ Head(urls_to_visit) \in visited_urls
    /\ outcome' = "skip"
    /\ UNCHANGED <<jobVars, visited_urls, queued_urls, documents, urls_to_visit,
                   total_pages, pc, calls, fetched, linkVars, urlVars,
                   depth, slept,
                   embedVars>>

\* an iteration whose URL is already in visited_urls: continue
Skip ==
    /\ pc = "loop"
    /\ LoopCondition
    /\ Head(urls_to_visit) \in visited_urls
    /\ urls_to_visit' = Tail(urls_to_visit)
    /\ outcome' = "skip"
    /\ UNCHANGED <<jobVars, visited_urls, queued_urls, documents, total_pages,
                   pc, calls, fetched, linkVars, urlVars,
                   depth, slept,
                   embedVars>>

\* a failed fetch that counts the URL as visited
FetchError_visited ==
    /\ pc = "loop"
    /\ LoopCondition
    /\ Head(urls_to_visit) \notin visited_urls
    /\ fetched' = Append(fetched, Head(urls_to_visit))
    /\ urls_to_visit' = Tail(urls_to_visit)
    /\ visited_urls' = visited_urls \cup {Head(urls_to_visit)}
    /\ outcome' = "fetch_error"
    /\ UNCHANGED <<jobVars, queued_urls, documents, total_pages,
                   pc, calls, linkVars, urlVars, depth,
                   embedVars>>
    /\ slept' = FALSE

\* a failed fetch that is not caught
FetchError_raises ==
    /\ pc = "loop"
    /\ LoopCondition
    /\ Head(urls_to_visit) \notin visited_urls
    /\ fetched' = Append(fetched, Head(urls_to_visit))
    /\ urls_to_visit' = Tail(urls_to_visit)
    /\ outcome' = "fetch_error"
    /\ pc' = "raised"
    /\ UNCHANGED <<jobVars, visited_urls, queued_urls, documents, total_pages,
                   calls, linkVars, urlVars, depth,
                   embedVars>>
    /\ slept' = FALSE

\* an iteration whose requests.get or raise_for_status raises: the except
\* branch logs and continues
FetchError ==
    /\ pc = "loop"
    /\ LoopCondition
    /\ Head(urls_to_visit) \notin visited_urls
    /\ fetched' = Append(fetched, Head(urls_to_visit))
    /\ urls_to_visit' = Tail(urls_to_visit)
    /\ outcome' = "fetch_error"
    /\ UNCHANGED <<jobVars, visited_urls, queued_urls, documents, total_pages,
                   pc, calls, linkVars, urlVars, depth,
                   embedVars>>
    /\ slept' = FALSE

\* a parsed HTML document, as the set of the regions it has: a main element,
\* an article element, a div of class content, documentation or docs, a body
\* (html.parser adds no body to a document that has none)
Regions == {"main", "article", "div.content", "body"}
ParsedDocuments == SUBSET Regions

\* main_content of extract_content: the first region found, or None
main_content(soup) ==
    IF "main" \in soup THEN "main"
    ELSE IF "article" \in soup THEN "article"
    ELSE IF "div.content" \in soup THEN "div.content"
    ELSE IF "body" \in soup THEN "body"
    ELSE "None"

\* where an h1 element of the document sits: inside a script, style, nav,
\* header or footer element of the main-content region ("removed" by the
\* decompose loop), or anywhere else ("kept")
H1Places == {"removed", "kept"}

\* the h1 elements of a document in document order, each given by its place
H1Lists == SeqsUpTo(H1Places, MaxH1)

\* the text of the i-th h1 element of the document
H1Text(i) == <<"h1", ToString(i)>>

\* title = soup.find("h1"), called after the decompose loop: the first h1 that
\* is still in the tree; title_text is its text, or url
title_text(h1s, url) ==
    LET left == {i \in DOMAIN h1s : h1s[i] = "kept"}
    IN  IF left = {}
        THEN url
        ELSE H1Text(CHOOSE i \in left : \A j \in left : i <= j)

\* what an extractor returns as content: nothing, white space, or text
Contents == {"", " \n", "text"}

\* str.strip()
Strip(content) == IF content = " \n" THEN "" ELSE content

\* an iteration that fetches a PDF: extract_pdf_content fails to parse
\* ("error"), finds no text ("empty") or finds text ("text"); its content is
\* the join of the pages with text
PdfPage ==
    /\ pc = "loop"
    /\ LoopCondition
    /\ Head(urls_to_visit) \notin visited_urls
    /\ LET url == Head(urls_to_visit)
       IN  \E parse \in {"error", "empty", "text"} :
             /\ \E content_type \in ContentTypes : is_pdf(url, content_type)
             /\ fetched' = Append(fetched, url)
             /\ visited_urls' = visited_urls \cup {url}
             /\ LET content == IF parse = "text" THEN "text" ELSE ""
                IN  documents' =
                        IF Strip(content) # ""
                        THEN Append(documents, [url |-> url, kind |-> "pdf",
                                                content |-> content])
                        ELSE documents
             /\ urls_to_visit' = Tail(urls_to_visit)
             /\ total_pages' = Min(max_pages, Len(urls_to_visit'))
             /\ outcome' = "pdf_" \o parse
    /\ UNCHANGED <<jobVars, queued_urls, pc, calls, linkVars, urlVars, depth,
                   embedVars>>
    /\ slept' = TRUE

\* an iteration that fetches an HTML document in which extract_content finds
\* no main, article, content div or body: main_content is None and find_all
\* raises; the except branch logs and continues
HtmlExtractError ==
    /\ pc = "loop"
    /\ LoopCondition
    /\ Head(urls_to_visit) \notin visited_urls
    /\ LET url == Head(urls_to_visit)
       IN  /\ \E content_type \in ContentTypes : ~is_pdf(url, content_type)
           /\ \E soup \in ParsedDocuments : main_content(soup) = "None"
           /\ fetched' = Append(fetched, url)
           /\ visited_urls' = visited_urls \cup {url}
           /\ urls_to_visit' = Tail(urls_to_visit)
           /\ outcome' = "html_error"
    /\ UNCHANGED <<jobVars, queued_urls, documents, total_pages, pc, calls,
                   linkVars, urlVars, depth,
                   embedVars>>
    /\ slept' = FALSE

\* an iteration that stores the record of an HTML page whatever its content
HtmlPage_stores_blank ==
    /\ pc = "loop"
    /\ LoopCondition
    /\ Head(urls_to_visit) \notin visited_urls
    /\ LET url == Head(urls_to_visit)
       IN  \E content \in Contents :
             /\ \E content_type \in ContentTypes : ~is_pdf(url, content_type)
             /\ \E soup \in ParsedDocuments : main_content(soup) # "None"
             /\ fetched' = Append(fetched, url)
             /\ visited_urls' = visited_urls \cup {url}
             /\ documents' = Append(documents, [url |-> url, kind |-> "html",
                                                content |-> content])
             /\ urls_to_visit' = Tail(urls_to_visit)
             /\ outcome' = IF Strip(content) # "" THEN "html_text" ELSE "html_empty"
    /\ pc' = "links"
    /\ links' = <<>>
    /\ nhrefs' = 0
    /\ UNCHANGED <<jobVars, queued_urls, total_pages, calls, urlVars, depth,
                   embedVars>>
    /\ slept' = FALSE

\* an iteration that fetches an HTML page, up to the call of extract_links;
\* the record is stored when its content is not blank
HtmlPage ==
    /\ pc = "loop"
    /\ LoopCondition
    /\ Head(urls_to_visit) \notin visited_urls
    /\ LET url == Head(urls_to_visit)
       IN  \E content \in Contents :
             /\ \E content_type \in ContentTypes : ~is_pdf(url, content_type)
             /\ \E soup \in ParsedDocuments : main_content(soup) # "None"
             /\ fetched' = Append(fetched, url)
             /\ visited_urls' = visited_urls \cup {url}
             /\ documents' =
                    IF Strip(content) # ""
                    THEN Append(documents, [url |-> url, kind |-> "html",
                                            content |-> content])
                    ELSE documents
             /\ urls_to_visit' = Tail(urls_to_visit)
             /\ outcome' = IF Strip(content) # "" THEN "html_text" ELSE "html_empty"
    /\ pc' = "links"
    /\ links' = <<>>
    /\ nhrefs' = 0
    /\ UNCHANGED <<jobVars, queued_urls, total_pages, calls, urlVars, depth,
                   embedVars>>
    /\ slept' = FALSE

\* one pass of the for loop of extract_links, for the next href of the page
ConsiderHref(href) ==
    /\ pc = "links"
    /\ nhrefs < MaxLinks
    /\ nhrefs' = nhrefs + 1
    /\ LET absolute_url == normalize_url(href)
       IN  IF is_valid_url(absolute_url, visited_urls, queued_urls)
           THEN /\ links' = Append(links, absolute_url)
                /\ queued_urls' = mark_queued(queued_urls, absolute_url)
                /\ depth' = (absolute_url :> (depth[fetched[Len(fetched)]] + 1))
                              @@ depth
           ELSE UNCHANGED <<links, queued_urls, depth>>
    /\ UNCHANGED <<jobVars, visited_urls, documents, urls_to_visit, total_pages,
                   pc, calls, fetched, outcome, slept,
                   embedVars>>

NextHref ==
    /\ \E href \in LinkPool : ConsiderHref(href)
    /\ UNCHANGED urlVars

\* the new links put in front of the queue instead of behind it
LinksDone_prepend ==
    /\ pc = "links"
    /\ urls_to_visit' = links \o urls_to_visit
    /\ total_pages' = Min(max_pages, Len(urls_to_visit'))
    /\ links' = <<>>
    /\ nhrefs' = 0
    /\ pc' = "loop"
    /\ UNCHANGED <<jobVars, visited_urls, queued_urls, documents, calls, fetched,
                   outcome, urlVars, depth,
                   embedVars>>
    /\ slept' = TRUE

\* the page has no further href: extract_links returns, the new links are
\* appended to the queue, total_pages is recomputed, the loop sleeps
LinksDone ==
    /\ pc = "links"
    /\ urls_to_visit' = urls_to_visit \o links
    /\ total_pages' = Min(max_pages, Len(urls_to_visit'))
    /\ links' = <<>>
    /\ nhrefs' = 0
    /\ pc' = "loop"
    /\ UNCHANGED <<jobVars, visited_urls, queued_urls, documents, calls, fetched,
                   outcome, urlVars, depth,
                   embedVars>>
    /\ slept' = TRUE

\* urljoin raises on the next href (ValueError, e.g. href "//["): extract_links
\* is left through the except branch of scrape(), the links found on this page
\* stay queued but never reach the queue; the loop continues
LinksError ==
    /\ pc = "links"
    /\ nhrefs < MaxLinks
    /\ links' = <<>>
    /\ nhrefs' = 0
    /\ pc' = "loop"
    /\ outcome' = "links_error"
    /\ UNCHANGED <<jobVars, visited_urls, queued_urls, documents, urls_to_visit,
                   total_pages, calls, fetched, urlVars, depth, slept,
                   embedVars>>

\* the loop condition is false: return self.documents
Return ==
    /\ pc = "loop"
    /\ ~LoopCondition
    /\ pc' = "done"
    /\ outcome' = "returned"
    /\ UNCHANGED <<jobVars, visited_urls, queued_urls, documents, urls_to_visit,
                   total_pages, calls, fetched, linkVars, urlVars,
                   depth, slept,
                   embedVars>>

\* the steps that carry scrape() forward; a page has finitely many hrefs, so
\* extract_links comes to LinksDone
Progress ==
    Skip \/ FetchError \/ PdfPage \/ HtmlExtractError \/ HtmlPage \/ LinksDone
    \/ LinksError \/ Return

Next ==
    \/ Scrape
    \/ Skip
    \/ FetchError
    \/ PdfPage
    \/ HtmlExtractError
    \/ HtmlPage
    \/ NextHref
    \/ LinksDone
    \/ LinksError
    \/ Return

Spec == Init /\ [][Next]_vars

\* scrape() runs in one thread and every fetch returns: once called it keeps
\* taking steps until it returns
FairSpec == Spec /\ WF_vars(Progress)

----------------------------------------------------------------------------
(* The URL functions on every URL string of at most MaxLen pieces.  The     *)
(* scraper is in extract_links on its seed page (after Scrape and HtmlPage) *)
(* and arg is what the page's hrefs are spelled from.                       *)

\* the four spellings of u: u, u + "/", u + "#a", u + "/#a"
Spelling(u, k) ==
    CASE k = 0 -> u
      [] k = 1 -> u \o <<"/">>
      [] k = 2 -> u \o <<"#", "a">>
      [] k = 3 -> u \o <<"/", "#", "a">>

InitUrl ==
    /\ \E url \in BaseUrls :
         /\ base_url = RStrip(url, "/")
         /\ base_path = RStrip(UrlPath(url), "/")
         /\ domain = Netloc(url)
    /\ max_pages = MaxPages
    /\ visited_urls = {normalize_url(base_url)}
    /\ queued_urls = {normalize_url(base_url)}
    /\ documents = <<[url |-> normalize_url(base_url), kind |-> "html",
                      content |-> "text"]>>
    /\ urls_to_visit = <<>>
    /\ total_pages = Min(max_pages, 1)
    /\ pc = "links"
    /\ calls = 1
    /\ fetched = <<normalize_url(base_url)>>
    /\ outcome = "html_text"
    /\ links = <<>>
    /\ nhrefs = 0
    /\ depth = (normalize_url(base_url) :> 0)
    /\ slept = FALSE
    /\ all_ids = <<>>
    /\ handed = {}
    /\ runs = 0
    /\ arg \in UrlStrings(MaxLen)
    /\ op = "none"
    /\ out = [url |-> <<>>, valid |-> FALSE]

\* normalize_url(arg)
CallNormalize ==
    /\ op' = "normalize_url"
    /\ out' = [url |-> normalize_url(arg), valid |-> FALSE]
    /\ UNCHANGED <<jobVars, visited_urls, queued_urls, documents, urls_to_visit,
                   total_pages, pc, calls, fetched, outcome, linkVars, arg,
                   depth, slept,
                   embedVars>>

\* is_valid_url(arg)
CallIsValid ==
    /\ op' = "is_valid_url"
    /\ out' = [url |-> arg, valid |-> is_valid_url(arg, visited_urls, queued_urls)]
    /\ UNCHANGED <<jobVars, visited_urls, queued_urls, documents, urls_to_visit,
                   total_pages, pc, calls, fetched, outcome, linkVars, arg,
                   depth, slept,
                   embedVars>>

\* the next href of the page is a spelling of arg
SpellingHref ==
    \E k \in 0..3 :
        /\ ConsiderHref(Spelling(arg, k))
        /\ op' = "extract_links"
        /\ out' = [url |-> normalize_url(Spelling(arg, k)),
                   valid |-> Len(links') > Len(links)]
        /\ UNCHANGED arg

NextUrl ==
    \/ CallNormalize
    \/ CallIsValid
    \/ SpellingHref
    \/ LinksDone
    \/ LinksError

SpecUrl == InitUrl /\ [][NextUrl]_vars

----------------------------------------------------------------------------
(* What scrape() does with one fetched resource: the choice of the          *)
(* extractor and the two extractors, on every normalized URL string arg of  *)
(* at most MaxLen pieces.                                                    *)

\* the host in the first piece of a URL string: what follows "https://"
HostOf(origin) == IF origin = S THEN "sub.h" ELSE "h"

\* url.split("/")[-1]: what follows the last "/" of the string; without a "/"
\* piece the last "/" is the one of "https://"
AfterLastSlash(url) ==
    LET slashes == {i \in DOMAIN url : url[i] = "/"}
    IN  IF slashes = {}
        THEN <<HostOf(url[1])>> \o Tail(url)
        ELSE SubSeq(url, (CHOOSE i \in slashes : \A j \in slashes : j <= i) + 1,
                    Len(url))

\* the routing of scrape() for a queued URL arg and a content-type header
Route ==
    /\ normalize_url(arg) = arg
    /\ \E header \in ContentTypes :
         /\ op' = "is_pdf"
         /\ out' = [url |-> arg, content_type |-> header,
                    valid |-> is_pdf(arg, header)]
    /\ UNCHANGED <<jobVars, visited_urls, queued_urls, documents, urls_to_visit,
                   total_pages, pc, calls, fetched, outcome, linkVars, arg,
                   depth, slept,
                   embedVars>>

\* extract_content(soup, arg): raises AttributeError at main_content.find_all
\* when main_content is None, returns a record otherwise
CallExtractContent ==
    /\ \E soup \in ParsedDocuments, h1s \in H1Lists :
         /\ op' = "extract_content"
         /\ out' = IF main_content(soup) = "None"
                   THEN [url |-> arg, soup |-> soup, h1s |-> h1s,
                         result |-> "AttributeError"]
                   ELSE [url |-> arg, soup |-> soup, h1s |-> h1s,
                         result |-> "record", title |-> title_text(h1s, arg)]
    /\ UNCHANGED <<jobVars, visited_urls, queued_urls, documents, urls_to_visit,
                   total_pages, pc, calls, fetched, outcome, linkVars, arg,
                   depth, slept,
                   embedVars>>

\* extract_pdf_content(pdf_bytes, arg): PdfReader or extract_text raises
\* ("error"), no page has text ("empty"), or some page has ("text"); the
\* title is the metadata title, else a first line shorter than 200
\* characters, else what follows the last "/" of the URL
CallExtractPdf ==
    /\ normalize_url(arg) = arg
    /\ \E parse \in {"error", "empty", "text"}, metadata_title \in BOOLEAN,
          first_line \in {"short", "long"} :
         /\ op' = "extract_pdf_content"
         /\ out' = [url |-> arg,
                    parse |-> parse,
                    result |-> "record",
                    title |-> IF parse = "error" THEN AfterLastSlash(arg)
                              ELSE IF metadata_title THEN <<"metadata.title">>
                              ELSE IF parse = "text" /\ first_line = "short"
                                   THEN <<"first_line">>
                              ELSE AfterLastSlash(arg),
                    content |-> IF parse = "text" THEN "text" ELSE ""]
    /\ UNCHANGED <<jobVars, visited_urls, queued_urls, documents, urls_to_visit,
                   total_pages, pc, calls, fetched, outcome, linkVars, arg,
                   depth, slept,
                   embedVars>>

NextExtract ==
    \/ Route
    \/ CallExtractContent
    \/ CallExtractPdf

SpecExtract == InitUrl /\ [][NextExtract]_vars

----------------------------------------------------------------------------
(* Construction and seeding for every base URL string of at most MaxLen     *)
(* pieces: arg is the base_url argument of __init__.                        *)

InitSeed ==
    /\ arg \in UrlStrings(MaxLen)
    /\ \E mp \in 0..MaxPages : Construct(arg, mp)
    /\ urls_to_visit = <<>>
    /\ total_pages = 0
    /\ pc = "new"
    /\ calls = 0
    /\ fetched = <<>>
    /\ outcome = "constructed"
    /\ links = <<>>
    /\ nhrefs = 0
    /\ depth = <<>>
    /\ slept = FALSE
    /\ all_ids = <<>>
    /\ handed = {}
    /\ runs = 0
    /\ op = "none"
    /\ out = [url |-> <<>>, valid |-> FALSE]

NextSeed == Scrape

SpecSeed == InitSeed /\ [][NextSeed]_vars

----------------------------------------------------------------------------
(* doc_rag.embedder.DocumentEmbedder (src/src/doc_rag/embedder.py): the ids *)
(* that embed_documents builds for the chunks of the documents it is given. *)
(* Every index command (cli.py) builds a new embedder on the collection of  *)
(* the given name, which get_or_create_collection opens when it exists.     *)

\* defaults of chunk_text
chunk_size == 300
overlap == 50

\* len(text.split()) of the contents handed to chunk_text
WordCounts == {0, 1, 250, 251, 501}

\* len(chunk_text(text)) for a text of that many words: one chunk for every i
\* of range(0, len(words), chunk_size - overlap)
NumChunks(words) ==
    Cardinality({i \in 0..words : i < words /\ i % (chunk_size - overlap) = 0})

\* f"doc_{doc_idx}_chunk_{chunk_idx}"
ChunkId(doc_idx, chunk_idx) ==
    <<"doc_", ToString(doc_idx), "_chunk_", ToString(chunk_idx)>>

\* the ids of the chunks of one document, in the order of the inner loop
RECURSIVE IdsOfDocument(_, _, _)
IdsOfDocument(doc_idx, nchunks, chunk_idx) ==
    IF chunk_idx >= nchunks THEN <<>>
    ELSE <<ChunkId(doc_idx, chunk_idx)>>
         \o IdsOfDocument(doc_idx, nchunks, chunk_idx + 1)

\* all_ids after the loops of embed_documents over documents, a list of word
\* counts, from document doc_idx - 1 on (enumerate counts from 0)
RECURSIVE IdsOfDocuments(_, _)
IdsOfDocuments(documents_, doc_idx) ==
    IF doc_idx > Len(documents_) THEN <<>>
    ELSE IdsOfDocument(doc_idx - 1, NumChunks(documents_[doc_idx]), 0)
         \o IdsOfDocuments(documents_, doc_idx + 1)

\* embed_documents(documents): the ids are built and handed to collection.add
\* (in batches of 100, which together hand over all of all_ids)
EmbedDocuments ==
    /\ runs < MaxRuns
    /\ \E documents_ \in SeqsUpTo(WordCounts, MaxDocs) :
         all_ids' = IdsOfDocuments(documents_, 1)
    /\ handed' = handed \cup {all_ids[i] : i \in DOMAIN all_ids}
    /\ runs' = runs + 1
    /\ UNCHANGED <<jobVars, visited_urls, queued_urls, documents, urls_to_visit,
                   total_pages, pc, calls, fetched, outcome, linkVars, depth,
                   slept, urlVars>>

NextEmbed == EmbedDocuments

SpecEmbed == Init /\ [][NextEmbed]_vars

----------------------------------------------------------------------------
(* Claims *)

NoDuplicates(q) == \A i, j \in DOMAIN q : q[i] = q[j] => i = j

\* a step of scrape() that handed a URL to requests.get
FetchStep == fetched' # fetched /\ fetched' # <<>>

\* C1: in a run of scrape() on a freshly constructed scraper, no URL string is
\* handed to requests.get twice, whatever the pages link to and whichever
\* fetches fail.
C1_GetAtMostOncePerUrl == calls = 1 => NoDuplicates(fetched)

\* a finished first run with three fetches, one of them failed
C1_Witness ==
    /\ calls = 1
    /\ pc = "done"
    /\ Len(fetched) = 3
    /\ Cardinality(visited_urls) = 2

\* C2: the visited set never exceeds max_pages and never loses an element
\* (it is a set, so it holds no URL twice).
C2_VisitedBounded ==
    /\ [](Cardinality(visited_urls) <= max_pages)
    /\ [][visited_urls \subseteq visited_urls']_vars

\* the budget is exhausted while URLs are still pending
C2_Witness ==
    /\ pc = "loop"
    /\ max_pages = MaxPages
    /\ Cardinality(visited_urls) = max_pages
    /\ urls_to_visit # <<>>

\* C3: every visited URL is a queued URL.
C3_VisitedSubsetQueued == visited_urls \subseteq queued_urls

\* a link of the seed page has been visited
C3_Witness ==
    /\ Cardinality(visited_urls) = 2
    /\ Cardinality(queued_urls) = 3

\* C4: every URL in the pending queue has the seed's host, a path that starts
\* with the seed's path, and a path that ends in no excluded extension.
C4_PendingInScope ==
    \A i \in DOMAIN urls_to_visit :
        LET u == urls_to_visit[i]
            seed == normalize_url(base_url)
        IN  /\ Netloc(u) = Netloc(seed)
            /\ StartsWith(UrlPath(u), UrlPath(seed))
            /\ ~EndsWithAny(UrlPath(u), EXCLUDED_EXTENSIONS)

\* str.removesuffix("/")
StripOneSlash(path) ==
    IF path # <<>> /\ path[Len(path)] = "/"
    THEN SubSeq(path, 1, Len(path) - 1)
    ELSE path

\* the four conditions of the scope filter, as the specification states them
InScope(url) ==
    /\ Netloc(url) = domain
    /\ StartsWith(StripOneSlash(UrlPath(url)), base_path)
    /\ url \notin visited_urls /\ url \notin queued_urls
    /\ ~EndsWithAny(UrlPath(url), EXCLUDED_EXTENSIONS)

\* C5: is_valid_url(url) is true exactly when the host is the job's domain, the
\* path with a trailing "/" stripped starts with the base path, the URL is
\* neither visited nor queued, and the path ends in no excluded extension.
C5_IsValidIffInScope ==
    op = "is_valid_url" => (out.valid <=> InScope(out.url))

\* C6: normalizing a normalized URL changes nothing.
C6_NormalizeIdempotent ==
    op = "normalize_url" => normalize_url(out.url) = out.url

\* a URL that lost several trailing slashes
C6_Witness ==
    /\ op = "normalize_url"
    /\ arg[Len(arg)] = "/"
    /\ Len(out.url) + 2 <= Len(arg)

\* the URLs C7 is about: the path is neither empty nor "/"
PathIsProper(u) == UrlPath(u) # <<>> /\ UrlPath(u) # <<"/">>

\* C7: the four spellings of a URL with a proper path normalize to one string,
\* and once that string is queued or visited is_valid_url rejects the
\* normalized form of every spelling.
C7_SpellingsAreOneUrl ==
    PathIsProper(arg) =>
        \A k \in 0..3 :
            /\ normalize_url(Spelling(arg, k)) = normalize_url(arg)
            /\ normalize_url(arg) \in queued_urls \cup visited_urls
                 => ~is_valid_url(normalize_url(Spelling(arg, k)),
                                  visited_urls, queued_urls)

\* one spelling was admitted and the next one rejected
C7_Witness ==
    /\ PathIsProper(arg)
    /\ op = "extract_links"
    /\ nhrefs = 2
    /\ Len(links) = 1
    /\ ~out.valid

\* C8: once called, scrape() returns.
C8_ScrapeReturns == [](pc \in {"loop", "links"} => <>(pc = "done"))

\* a first run that ended on an empty queue, below the budget, after a failed
\* fetch
C8_Witness ==
    /\ calls = 1
    /\ pc = "done"
    /\ urls_to_visit = <<>>
    /\ visited_urls # {}
    /\ Cardinality(visited_urls) < max_pages
    /\ Len(fetched) > Cardinality(visited_urls)

Failures == {"fetch_error", "html_error", "pdf_error"}

\* what a failing step does: the records are kept and the loop goes on with
\* the rest of the queue
FailureContinues ==
    /\ (FetchStep /\ outcome' \in Failures) =>
          (/\ pc' = "loop"
           /\ documents' = documents
           /\ urls_to_visit' = Tail(urls_to_visit))
    /\ (pc = "links" /\ outcome' = "links_error") =>
          (/\ pc' = "loop"
           /\ documents' = documents
           /\ urls_to_visit' = urls_to_visit)

\* C9: scrape() never raises, and an iteration that fails on its URL (fetch,
\* HTML extraction, PDF parse, link extraction) keeps the records and goes back
\* to the loop with the rest of the queue.
C9_FailureDoesNotAbort == [](pc # "raised") /\ [][FailureContinues]_vars

\* a PDF failed to parse while records are held and URLs are pending
C9_Witness ==
    /\ outcome = "pdf_error"
    /\ pc = "loop"
    /\ documents # <<>>
    /\ urls_to_visit # <<>>

\* C10: a failed fetch removes the URL from the queue and changes nothing
\* else: visited, queued and the records stay as they are.
C10_FetchErrorChangesNothing ==
    [][(FetchStep /\ outcome' = "fetch_error") =>
         /\ visited_urls' = visited_urls
         /\ queued_urls' = queued_urls
         /\ documents' = documents
         /\ urls_to_visit' = Tail(urls_to_visit)
         /\ pc' = "loop"]_vars

\* a fetch failed and the loop has a next URL
C10_Witness ==
    /\ outcome = "fetch_error"
    /\ pc = "loop"
    /\ LoopCondition
    /\ visited_urls # {}

\* the conditions of the scope filter that do not change during a crawl, as the
\* specification states them: host, path prefix, extension of the path
InScopeOfJob(url) ==
    /\ Netloc(url) = domain
    /\ StartsWith(StripOneSlash(UrlPath(url)), base_path)
    /\ ~EndsWithAny(UrlPath(url), EXCLUDED_EXTENSIONS)

\* the in-scope URLs that the fetched pages link to, with the seed: every
\* queued URL was an href of a fetched page or is the seed
ReachableInScope == {u \in queued_urls : InScopeOfJob(u)}

\* C11: when a first scrape() has returned and every fetch succeeded and gave
\* a page with non-blank content, the number of records and the size of the
\* visited set both equal min(max_pages, number of in-scope URLs reachable
\* from the seed).
C11_BudgetCapsResult ==
    (pc = "done" /\ calls = 1 /\ Len(documents) = Len(fetched)) =>
        /\ Len(documents) = Cardinality(visited_urls)
        /\ Cardinality(visited_urls) = Min(max_pages, Cardinality(ReachableInScope))

\* one href of the page: its normalized target is admitted when it is in
\* scope and neither visited nor queued, and then goes to the end of the
\* page's new links and into queued; any other target changes neither
HrefAdmission ==
    (op' = "extract_links" /\ nhrefs' = nhrefs + 1) =>
        IF InScope(out'.url)
        THEN /\ links' = Append(links, out'.url)
             /\ queued_urls' = mark_queued(queued_urls, out'.url)
        ELSE /\ links' = links
             /\ queued_urls' = queued_urls

\* the end of the page: its new links are appended to the pending queue
PageLinksAppended ==
    (pc = "links" /\ pc' = "loop") =>
        /\ urls_to_visit' = urls_to_visit \o links
        /\ queued_urls' = queued_urls

\* C12: processing a fetched HTML page appends to the pending queue exactly
\* the normalized targets of its hrefs that are in scope and were neither
\* queued nor visited, once each and in document order, and adds exactly those
\* to queued.
C12_PageLinksAdmitted == [][HrefAdmission /\ PageLinksAppended]_vars

\* C13: a fetched resource goes to the PDF extractor exactly when the path of
\* its URL ends in ".pdf" or its content-type header contains
\* "application/pdf" in any letter case; otherwise to the HTML extractor.
C13_PdfRouting ==
    op = "is_pdf" =>
        (out.valid <=>
            \/ EndsWithAny(UrlPath(out.url), {".pdf"})
            \/ \E i \in DOMAIN out.content_type :
                 out.content_type[i] \in {"application/pdf", "Application/PDF"})

IsPrefix(s, t) == Len(s) <= Len(t) /\ SubSeq(t, 1, Len(s)) = s

IndexOf(q, x) == CHOOSE i \in DOMAIN q : q[i] = x

\* the URLs a first scrape() has put on the pending queue, in the order in
\* which they were put there: those taken off it, then those still on it
Discovered == fetched \o urls_to_visit

\* the records are in the order in which their URLs were taken off the queue
RecordsInQueueOrder ==
    \A i, j \in DOMAIN documents :
        i < j => IndexOf(fetched, documents[i].url) < IndexOf(fetched, documents[j].url)

\* along the queue the number of links followed from the seed never decreases
DepthNeverDecreases ==
    \A i, j \in DOMAIN Discovered :
        i <= j => depth[Discovered[i]] <= depth[Discovered[j]]

\* the queue is only taken from at the front and only added to at the back
QueueIsFifo == (calls = 1 /\ calls' = 1) => IsPrefix(Discovered, Discovered')

\* C14: in a run of scrape() on a fresh scraper the queue is first in, first
\* out, the records are in the order in which their URLs were discovered, and
\* URLs leave the queue in non-decreasing link distance from the seed.
C14_BreadthFirstOrder ==
    /\ [](calls = 1 => RecordsInQueueOrder /\ DepthNeverDecreases)
    /\ [][QueueIsFifo]_vars

\* two pages are stored and a link of the seed page waits in front of a link
\* of the second page
C14_Witness ==
    /\ calls = 1
    /\ pc = "loop"
    /\ Len(documents) = 2
    /\ Len(urls_to_visit) = 2
    /\ depth[urls_to_visit[1]] = 1
    /\ depth[urls_to_visit[2]] = 2

\* the records whose url is u
RecordsOf(u) == {i \in DOMAIN documents : documents[i].url = u}

\* C15: in a crawl on a fresh scraper no two records have the same URL, the
\* URL of every record is visited, the content of every record is not blank,
\* and the page just extracted with non-blank content has exactly one record.
C15_RecordsWellFormed ==
    calls = 1 =>
        /\ \A i \in DOMAIN documents :
             /\ Cardinality(RecordsOf(documents[i].url)) = 1
             /\ documents[i].url \in visited_urls
             /\ Strip(documents[i].content) # ""
        /\ outcome \in {"html_text", "pdf_text"} =>
             Cardinality(RecordsOf(fetched[Len(fetched)])) = 1

\* after a stored page, a page with blank content was visited and left no
\* record
C15_Witness ==
    /\ calls = 1
    /\ pc = "loop"
    /\ outcome = "html_empty"
    /\ Len(documents) = 1
    /\ Cardinality(visited_urls) = 2

\* C16: extract_content does not raise: for a document without main, article
\* and content div, with or without a body, it returns a record.
C16_ExtractContentReturns ==
    (op = "extract_content" /\ out.soup \cap {"main", "article", "div.content"} = {})
        => out.result = "record"

\* the last segment of the path of url
LastPathSegment(url) ==
    LET path == UrlPath(url)
        slashes == {i \in DOMAIN path : path[i] = "/"}
    IN  IF slashes = {}
        THEN <<>>
        ELSE SubSeq(path, (CHOOSE i \in slashes : \A j \in slashes : j <= i) + 1,
                    Len(path))

\* C17: when the PDF fails to parse, extract_pdf_content returns a record with
\* the given url, empty content and the last segment of the URL's path as
\* title.
C17_PdfFailureRecord ==
    (op = "extract_pdf_content" /\ out.parse = "error") =>
        /\ out.result = "record"
        /\ out.url = arg
        /\ out.content = ""
        /\ out.title = LastPathSegment(arg)

\* C18: between two consecutive fetch attempts of a scrape() the politeness
\* delay has run, whether the earlier attempt succeeded, failed at the fetch
\* or failed during extraction.
C18_DelayBetweenFetches == [][(FetchStep /\ fetched # <<>>) => slept]_vars

\* C19 as stated: a scrape() makes at most max_pages fetch attempts, whatever
\* the links and whichever fetches fail.
C19_FetchAttemptsBounded == Len(fetched) <= max_pages

\* the fetch attempts of this scrape() that succeeded
Succeeded == {i \in DOMAIN fetched : fetched[i] \in visited_urls}

\* when the loop condition is false scrape() returns what it has and leaves
\* the pending URLs where they are
PendingAbandoned ==
    (pc = "loop" /\ ~LoopCondition) =>
        /\ pc' = "done"
        /\ documents' = documents
        /\ urls_to_visit' = urls_to_visit

\* C19, amended: a scrape() makes at most max_pages successful fetch attempts
\* (failed attempts do not use up the budget), and the URLs pending when the
\* budget is used up are abandoned without error.
C19_SuccessfulFetchesBounded ==
    /\ [](Cardinality(Succeeded) <= max_pages)
    /\ [][PendingAbandoned]_vars

\* a first run returned with the budget used up, URLs pending, and more fetch
\* attempts than the budget
C19_Witness ==
    /\ calls = 1
    /\ pc = "done"
    /\ Cardinality(Succeeded) = max_pages
    /\ Len(fetched) > max_pages
    /\ urls_to_visit # <<>>

\* the normalizer as the specification states it: the fragment is dropped and
\* one trailing "/" is stripped unless the path is exactly "/"
UrlNormalizer(url) ==
    LET u == BeforeFragment(url)
    IN  IF UrlPath(u) # <<"/">> THEN StripOneSlash(u) ELSE u

\* C20: right after the seeding of a first scrape() the pending queue is <<n>>,
\* queued is {n}, visited is empty and there are no records, where n is the
\* normalizer's result for the base URL the caller gave.
C20_SeededState ==
    (calls = 1 /\ pc = "loop" /\ outcome = "seeded") =>
        /\ urls_to_visit = <<UrlNormalizer(arg)>>
        /\ queued_urls = {UrlNormalizer(arg)}
        /\ visited_urls = {}
        /\ documents = <<>>

\* C21: a later scrape() on the same scraper starts from the seeded state
\* (visited empty, queued holding the seed only, no records) and fetches the
\* seed: what the earlier call left in visited, queued and the records does
\* not reach it.
C21_CallsIndependent ==
    calls > 1 =>
        /\ outcome = "seeded" =>
             /\ visited_urls = {}
             /\ queued_urls = {normalize_url(base_url)}
             /\ documents = <<>>
        /\ outcome # "skip"

Range(q) == {q[i] : i \in DOMAIN q}

\* C22: when a first scrape() has returned with budget left, a fetch has been
\* attempted on every URL that was queued: none was dropped on the way.
C22_QueuedIsAttempted ==
    (calls = 1 /\ pc = "done" /\ Cardinality(visited_urls) < max_pages) =>
        queued_urls \subseteq Range(fetched)

\* C23: after every successful fetch of an HTML resource extract_links runs,
\* whether the content was stored, was blank and discarded, or could not be
\* extracted.
C23_LinksExtractedWhateverContent ==
    [][(FetchStep /\ outcome' \in {"html_text", "html_empty", "html_error"})
         => pc' = "links"]_vars

\* C24: during a scrape() on a fresh scraper the pending queue, with the new
\* links of the page being processed, holds no URL twice and no visited URL,
\* and the skip branch is never taken.
C24_SkipNeverTaken ==
    calls = 1 =>
        /\ NoDuplicates(urls_to_visit \o links)
        /\ \A u \in Range(urls_to_visit \o links) : u \notin visited_urls
        /\ outcome # "skip"

\* two URLs are visited and two others are pending
C24_Witness ==
    /\ calls = 1
    /\ pc = "loop"
    /\ Cardinality(visited_urls) = 2
    /\ Len(urls_to_visit) = 2

\* C25: the title of an HTML record is the text of the first h1 element of the
\* fetched document, wherever it sits, and the URL when the document has no
\* h1.
C25_TitleIsFirstH1 ==
    (op = "extract_content" /\ out.result = "record") =>
        out.title = IF out.h1s = <<>> THEN out.url ELSE H1Text(1)

\* url is a spelling of the base URL: the base URL with a trailing slash, a
\* fragment or both
SpellsBase(url) == RStrip(BeforeFragment(url), "/") = base_url

\* C26: a link that is a spelling of the crawl's base URL is rejected as
\* already queued, for every base URL, so the seed is the only spelling of the
\* base URL that is ever queued or fetched.
C26_BaseNeverRequeued ==
    \A u \in queued_urls \cup Range(fetched) :
        SpellsBase(u) => u = normalize_url(base_url)

\* C27: in every progress line "Scraping (i/total): url" of a scrape() on a
\* fresh scraper the index is between 1 and total.  A line is logged by every
\* iteration, that is in every state where the loop condition holds.
C27_LogIndexWithinTotal ==
    (calls = 1 /\ pc = "loop" /\ LoopCondition) =>
        (1 <= LogLine.i /\ LogLine.i <= LogLine.total)

\* C28: the ids that an embed_documents call hands to the collection are
\* pairwise distinct, and none of them was handed over by an earlier call on
\* the same collection.
C28_ChunkIdsNeverReused ==
    /\ NoDuplicates(all_ids)
    /\ Range(all_ids) \cap handed = {}

====
